---- MODULE Spec2Model ----
(***************************************************************************)
(* State-machine model of the two stolon administrative programs:          *)
(*   - stolonrpc  (cmd/stolonrpc/stolonrpc.go): startup sequence, the      *)
(*     listener goroutine, OS signal delivery and the supervision loop;    *)
(*   - stolonctl  (cmd/stolonctl/stolonctl.go): parse, client              *)
(*     construction, command dispatch, payload resolution (readFile) and   *)
(*     the process exit code.                                              *)
(* SpecRpc runs stolonrpc alone, SpecCtl runs stolonctl alone.             *)
(***************************************************************************)
EXTENDS Integers, Sequences, FiniteSets, TLC

VARIABLES
    \* ---- stolonrpc ----
    envErr,       \* envconfig.Process fails (environment input)
    envLogLevel,  \* value of STOLONRPC_LOG_LEVEL (environment input)
    pc,           \* position of main
    c,            \* the *Config returned by GetConfig ("nil" or "config")
    logLevelSet,  \* the severity handed to log.SetLevel ("unset" if never)
    debugSet,     \* trace.SetDebug(true) was called
    endpoint,     \* the RPC endpoint (server, codecs, service, router) is built
    lpc,          \* position of the listener goroutine
    lerr,         \* the value ListenAndServe returned
    errChan,      \* contents of errChan
    signalChan,   \* contents of signalChan
    notified,     \* signal.Notify has registered signalChan
    logCalls,     \* calls made to the logger (level, message), in order
    exitCode,     \* how the process ended ("running" while it has not)
    outcomes,     \* supervision outcomes that fired, in order
    launches,     \* number of times the listener goroutine was launched
    sends,        \* number of sends on errChan
    errRecvs,     \* number of receives from errChan
    sigRecvs,     \* number of receives from signalChan
    firstReady,   \* the channel that got a value first ("none" if neither)
    delivered,    \* number of OS signals delivered so far
    served,       \* number of HTTP requests served so far
    \* ---- stolonctl ----
    args,         \* os.Args, abstracted
    fs,           \* file name -> content, or NoFile
    stdin,        \* content of standard input, or ReadFault
    cpc,          \* position of stolonctl's main/run
    cmd,          \* the command app.Parse selected
    calls,        \* calls made on the cluster client, in order
    rf,           \* what readFile returned, or NotCalled
    sent,         \* the payload handed to PatchConfig/ReplaceConfig
    runErr,       \* the error run returns
    failure,      \* the first step that failed
    stderr,       \* what main wrote to the error stream
    ctlExit       \* stolonctl's exit code ("running" while it has not)

rpcVars == <<envErr, envLogLevel, pc, c, logLevelSet, debugSet, endpoint, lpc,
             lerr, errChan, signalChan, notified, logCalls, exitCode, outcomes,
             launches, sends, errRecvs, sigRecvs, firstReady, delivered, served>>
ctlVars == <<args, fs, stdin, cpc, cmd, calls, rf, sent, runErr, failure,
             stderr, ctlExit>>
vars == <<rpcVars, ctlVars>>

(***************************************************************************)
(* Bounds                                                                  *)
(***************************************************************************)
MaxSignals == 2
MaxRequests == 2
MaxLen == 2

(***************************************************************************)
(* stolonrpc                                                               *)
(***************************************************************************)
\* make(chan error, 1) and make(chan os.Signal, 1)
ErrChanCap == 1
SignalChanCap == 1

\* values of STOLONRPC_LOG_LEVEL the environment may hold
EnvLogLevels == {"", "info", "DEBUG", "Warn", "error", "verbose"}

\* strings.ToLower on the strings above
ToLower(s) ==
    CASE s = "DEBUG" -> "debug"
      [] s = "Warn" -> "warn"
      [] OTHER -> s

\* log.ParseLevel: the severities logrus knows
ParseLevel(lvl) ==
    IF lvl \in {"panic", "fatal", "error", "warn", "warning", "info", "debug"}
    THEN [sev |-> lvl, err |-> "nil"]
    ELSE [sev |-> "none", err |-> "not a valid logrus Level"]

\* setupLogging(level): the error it returns, the severity it sets, and
\* whether it switches trace debugging on
setupLogging(level) ==
    LET lvl == ToLower(level)
        p == ParseLevel(lvl)
    IN [err |-> p.err,
        set |-> IF p.err = "nil" THEN p.sev ELSE "unset",
        debug |-> (lvl = "debug")]

\* GetConfig(): nil and an error when envconfig.Process fails
GetConfig ==
    IF envErr THEN [c |-> "nil", err |-> "Can't parse config"]
    ELSE [c |-> "config", err |-> "nil"]

\* http.ListenAndServe always returns a non-nil error
ListenErrors == {"bind: address already in use", "accept: closed"}
Signals == {"interrupt", "terminated"}

alive == exitCode = "running"

InitRpcVars ==
    /\ envErr \in BOOLEAN
    /\ envLogLevel \in EnvLogLevels
    /\ pc = "GetConfig"
    /\ c = "nil"
    /\ logLevelSet = "unset"
    /\ debugSet = FALSE
    /\ endpoint = FALSE
    /\ lpc = "notstarted"
    /\ lerr = "nil"
    /\ errChan = <<>>
    /\ signalChan = <<>>
    /\ notified = FALSE
    /\ logCalls = <<>>
    /\ exitCode = "running"
    /\ outcomes = <<>>
    /\ launches = 0
    /\ sends = 0
    /\ errRecvs = 0
    /\ sigRecvs = 0
    /\ firstReady = "none"
    /\ delivered = 0
    /\ served = 0

IdleRpcVars ==
    /\ envErr = FALSE
    /\ envLogLevel = ""
    /\ pc = "GetConfig"
    /\ c = "nil"
    /\ logLevelSet = "unset"
    /\ debugSet = FALSE
    /\ endpoint = FALSE
    /\ lpc = "notstarted"
    /\ lerr = "nil"
    /\ errChan = <<>>
    /\ signalChan = <<>>
    /\ notified = FALSE
    /\ logCalls = <<>>
    /\ exitCode = "idle"
    /\ outcomes = <<>>
    /\ launches = 0
    /\ sends = 0
    /\ errRecvs = 0
    /\ sigRecvs = 0
    /\ firstReady = "none"
    /\ delivered = 0
    /\ served = 0

\* main, lines 61-64: the error of GetConfig is wrapped and dropped
MainGetConfig ==
    /\ alive /\ pc = "GetConfig"
    /\ c' = GetConfig.c
    /\ pc' = "setupLogging"
    /\ UNCHANGED <<envErr, envLogLevel, logLevelSet, debugSet, endpoint, lpc,
                   lerr, errChan, signalChan, notified, logCalls, exitCode,
                   outcomes, launches, sends, errRecvs, sigRecvs, firstReady,
                   delivered, served>>
    /\ UNCHANGED ctlVars

\* main, lines 66-69: c.LogLevel on a nil c is a nil dereference (the Go
\* runtime panics, exit status 2); the error of setupLogging is wrapped and
\* dropped, and main goes on
MainSetupLogging ==
    /\ alive /\ pc = "setupLogging"
    /\ IF c = "nil"
       THEN /\ pc' = "panicked"
            /\ exitCode' = "2"
            /\ UNCHANGED <<logLevelSet, debugSet, logCalls>>
       ELSE LET r == setupLogging(envLogLevel)
            IN /\ logLevelSet' = r.set
               /\ debugSet' = r.debug
               /\ logCalls' = Append(logCalls, <<"Info", "Start with config">>)
               /\ pc' = "construct"
               /\ UNCHANGED exitCode
    /\ UNCHANGED <<envErr, envLogLevel, c, endpoint, lpc, lerr, errChan,
                   signalChan, notified, outcomes, launches, sends, errRecvs,
                   sigRecvs, firstReady, delivered, served>>
    /\ UNCHANGED ctlVars

\* main, lines 71-86: server, codecs, service and router
MainConstructEndpoint ==
    /\ alive /\ pc = "construct"
    /\ endpoint' = TRUE
    /\ pc' = "launch"
    /\ UNCHANGED <<envErr, envLogLevel, c, logLevelSet, debugSet, lpc, lerr,
                   errChan, signalChan, notified, logCalls, exitCode, outcomes,
                   launches, sends, errRecvs, sigRecvs, firstReady, delivered,
                   served>>
    /\ UNCHANGED ctlVars

\* main, lines 88-91: errChan is made and the listener goroutine is launched
MainLaunchListener ==
    /\ alive /\ pc = "launch"
    /\ errChan' = <<>>
    /\ lpc' = "ListenAndServe"
    /\ launches' = launches + 1
    /\ pc' = "Notify"
    /\ UNCHANGED <<envErr, envLogLevel, c, logLevelSet, debugSet, endpoint,
                   lerr, signalChan, notified, logCalls, exitCode, outcomes,
                   sends, errRecvs, sigRecvs, firstReady, delivered, served>>
    /\ UNCHANGED ctlVars

\* main, lines 93-94: signalChan is made and registered for SIGINT, SIGTERM
MainNotify ==
    /\ alive /\ pc = "Notify"
    /\ signalChan' = <<>>
    /\ notified' = TRUE
    /\ pc' = "select"
    /\ UNCHANGED <<envErr, envLogLevel, c, logLevelSet, debugSet, endpoint,
                   lpc, lerr, errChan, logCalls, exitCode, outcomes, launches,
                   sends, errRecvs, sigRecvs, firstReady, delivered, served>>
    /\ UNCHANGED ctlVars

\* A faulty variant of FaultCase: the fault is logged with log.Error, which does
\* not end the process, and the loop goes round again.
FaultCaseNotFatal ==
    /\ alive /\ pc = "select"
    /\ errChan # <<>>
    /\ errChan' = Tail(errChan)
    /\ errRecvs' = errRecvs + 1
    /\ logCalls' = Append(logCalls, <<"Error", Head(errChan)>>)
    /\ outcomes' = Append(outcomes, "ListenerFault")
    /\ UNCHANGED <<pc, exitCode>>
    /\ UNCHANGED <<envErr, envLogLevel, c, logLevelSet, debugSet, endpoint,
                   lpc, lerr, signalChan, notified, launches, sends, sigRecvs,
                   firstReady, delivered, served>>
    /\ UNCHANGED ctlVars

\* main, lines 97-100: a value is received from errChan; log.Fatal logs it
\* and exits with status 1; a nil value leaves the loop running
FaultCase ==
    /\ alive /\ pc = "select"
    /\ errChan # <<>>
    /\ errChan' = Tail(errChan)
    /\ errRecvs' = errRecvs + 1
    /\ IF Head(errChan) # "nil"
       THEN /\ logCalls' = Append(logCalls, <<"Fatal", Head(errChan)>>)
            /\ outcomes' = Append(outcomes, "ListenerFault")
            /\ exitCode' = "1"
            /\ pc' = "exited"
       ELSE UNCHANGED <<logCalls, outcomes, exitCode, pc>>
    /\ UNCHANGED <<envErr, envLogLevel, c, logLevelSet, debugSet, endpoint,
                   lpc, lerr, signalChan, notified, launches, sends, sigRecvs,
                   firstReady, delivered, served>>
    /\ UNCHANGED ctlVars

\* A faulty variant of SignalCase: the process exits with status 1 on a signal.
SignalCaseExit1 ==
    /\ alive /\ pc = "select"
    /\ signalChan # <<>>
    /\ signalChan' = Tail(signalChan)
    /\ sigRecvs' = sigRecvs + 1
    /\ logCalls' = Append(logCalls, <<"Info", "Captured " \o Head(signalChan)>>)
    /\ outcomes' = Append(outcomes, "TerminationSignal")
    /\ exitCode' = "1"
    /\ pc' = "exited"
    /\ UNCHANGED <<envErr, envLogLevel, c, logLevelSet, debugSet, endpoint,
                   lpc, lerr, errChan, notified, launches, sends, errRecvs,
                   firstReady, delivered, served>>
    /\ UNCHANGED ctlVars

\* A faulty variant of SignalCase: the signal is received and logged but the
\* os.Exit(0) is missing, so the loop goes round again.
SignalCaseNoExit ==
    /\ alive /\ pc = "select"
    /\ signalChan # <<>>
    /\ signalChan' = Tail(signalChan)
    /\ sigRecvs' = sigRecvs + 1
    /\ logCalls' = Append(logCalls, <<"Info", "Captured " \o Head(signalChan)>>)
    /\ outcomes' = Append(outcomes, "TerminationSignal")
    /\ UNCHANGED <<pc, exitCode>>
    /\ UNCHANGED <<envErr, envLogLevel, c, logLevelSet, debugSet, endpoint,
                   lpc, lerr, errChan, notified, launches, sends, errRecvs,
                   firstReady, delivered, served>>
    /\ UNCHANGED ctlVars

\* main, lines 101-103: a signal is received from signalChan, logged, and the
\* process exits with status 0
SignalCase ==
    /\ alive /\ pc = "select"
    /\ signalChan # <<>>
    /\ signalChan' = Tail(signalChan)
    /\ sigRecvs' = sigRecvs + 1
    /\ logCalls' = Append(logCalls, <<"Info", "Captured " \o Head(signalChan)>>)
    /\ outcomes' = Append(outcomes, "TerminationSignal")
    /\ exitCode' = "0"
    /\ pc' = "exited"
    /\ UNCHANGED <<envErr, envLogLevel, c, logLevelSet, debugSet, endpoint,
                   lpc, lerr, errChan, notified, launches, sends, errRecvs,
                   firstReady, delivered, served>>
    /\ UNCHANGED ctlVars

\* the listener goroutine inside http.ListenAndServe: one request served
ListenerServe ==
    /\ alive /\ lpc = "ListenAndServe"
    /\ served < MaxRequests
    /\ served' = served + 1
    /\ UNCHANGED <<envErr, envLogLevel, pc, c, logLevelSet, debugSet, endpoint,
                   lpc, lerr, errChan, signalChan, notified, logCalls,
                   exitCode, outcomes, launches, sends, errRecvs, sigRecvs,
                   firstReady, delivered>>
    /\ UNCHANGED ctlVars

\* http.ListenAndServe returns (bind failure, or the accept loop fails)
ListenerReturn ==
    /\ alive /\ lpc = "ListenAndServe"
    /\ \E e \in ListenErrors : lerr' = e
    /\ lpc' = "send"
    /\ UNCHANGED <<envErr, envLogLevel, pc, c, logLevelSet, debugSet, endpoint,
                   errChan, signalChan, notified, logCalls, exitCode, outcomes,
                   launches, sends, errRecvs, sigRecvs, firstReady, delivered,
                   served>>
    /\ UNCHANGED ctlVars

\* A faulty variant of ListenerSend: the goroutine retries, calling ListenAndServe
\* again after it has sent the fault.
ListenerSendAndRetry ==
    /\ alive /\ lpc = "send"
    /\ Len(errChan) < ErrChanCap
    /\ errChan' = Append(errChan, lerr)
    /\ sends' = sends + 1
    /\ launches' = launches + 1
    /\ firstReady' = IF firstReady = "none" THEN "fault" ELSE firstReady
    /\ lpc' = "ListenAndServe"
    /\ UNCHANGED <<envErr, envLogLevel, pc, c, logLevelSet, debugSet, endpoint,
                   lerr, signalChan, notified, logCalls, exitCode, outcomes,
                   errRecvs, sigRecvs, delivered, served>>
    /\ UNCHANGED ctlVars

\* line 90: errChan <- (the value ListenAndServe returned); the send waits
\* while the channel is full, and the goroutine ends after it
ListenerSend ==
    /\ alive /\ lpc = "send"
    /\ Len(errChan) < ErrChanCap
    /\ errChan' = Append(errChan, lerr)
    /\ sends' = sends + 1
    /\ firstReady' = IF firstReady = "none" THEN "fault" ELSE firstReady
    /\ lpc' = "done"
    /\ UNCHANGED <<envErr, envLogLevel, pc, c, logLevelSet, debugSet, endpoint,
                   lerr, signalChan, notified, logCalls, exitCode, outcomes,
                   launches, errRecvs, sigRecvs, delivered, served>>
    /\ UNCHANGED ctlVars

\* The operating system delivers SIGINT or SIGTERM. Before signal.Notify the
\* default disposition ends the process; after it the signal package sends
\* on signalChan without blocking, dropping the signal when it is full.
DeliverSignal ==
    /\ alive
    /\ delivered < MaxSignals
    /\ delivered' = delivered + 1
    /\ \E s \in Signals :
         IF ~notified
         THEN /\ exitCode' = "signal"
              /\ pc' = "killed"
              /\ UNCHANGED <<signalChan, firstReady>>
         ELSE /\ IF Len(signalChan) < SignalChanCap
                 THEN /\ signalChan' = Append(signalChan, s)
                      /\ firstReady' = IF firstReady = "none" THEN "signal"
                                       ELSE firstReady
                 ELSE UNCHANGED <<signalChan, firstReady>>
              /\ UNCHANGED <<exitCode, pc>>
    /\ UNCHANGED <<envErr, envLogLevel, c, logLevelSet, debugSet, endpoint,
                   lpc, lerr, errChan, notified, logCalls, outcomes, launches,
                   sends, errRecvs, sigRecvs, served>>
    /\ UNCHANGED ctlVars

NextRpc ==
    \/ MainGetConfig
    \/ MainSetupLogging
    \/ MainConstructEndpoint
    \/ MainLaunchListener
    \/ MainNotify
    \/ FaultCase
    \/ SignalCase
    \/ ListenerServe
    \/ ListenerReturn
    \/ ListenerSend
    \/ DeliverSignal

(***************************************************************************)
(* stolonctl                                                               *)
(***************************************************************************)
Bytes == {0, 1}

\* byte sequences of at most MaxLen bytes
Contents == UNION {[1..n -> Bytes] : n \in 0..MaxLen}

\* FullCommand() of the five subcommands
Commands == {"cluster config", "cluster patch", "cluster replace",
             "cluster status", "cluster list"}

FileNames == {"a.json", "gone.json"}

\* os.Args, abstracted: the subcommand words, the value of --file ("" when
\* it is not given), the last element of os.Args, and whether the rest of
\* the line is what kingpin accepts
ArgLines ==
    {a \in [cmd : Commands \cup {"cluster bogus"},
            file : {""} \cup FileNames,
            last : {"-", "mycluster"},
            wellFormed : BOOLEAN] :
        a.file # "" => a.cmd \in {"cluster patch", "cluster replace"}}

NoData == <<>>

InitCtlVars ==
    /\ args \in ArgLines
    /\ \E d \in Contents :
         fs = [n \in FileNames |->
                 IF n = "a.json" THEN [ok |-> TRUE, data |-> d]
                 ELSE [ok |-> FALSE, data |-> NoData]]
    /\ stdin \in [ok : {TRUE}, data : Contents]
                 \cup {[ok |-> FALSE, data |-> NoData]}
    /\ cpc = "Parse"
    /\ cmd = ""
    /\ calls = <<>>
    /\ rf = [called |-> FALSE, err |-> "nil", data |-> NoData]
    /\ sent = [called |-> FALSE, data |-> NoData]
    /\ runErr = "nil"
    /\ failure = "none"
    /\ stderr = <<>>
    /\ ctlExit = "running"

IdleCtlVars ==
    /\ args = [cmd |-> "cluster list", file |-> "", last |-> "mycluster",
               wellFormed |-> TRUE]
    /\ fs = [n \in FileNames |-> [ok |-> FALSE, data |-> NoData]]
    /\ stdin = [ok |-> FALSE, data |-> NoData]
    /\ cpc = "idle"
    /\ cmd = ""
    /\ calls = <<>>
    /\ rf = [called |-> FALSE, err |-> "nil", data |-> NoData]
    /\ sent = [called |-> FALSE, data |-> NoData]
    /\ runErr = "nil"
    /\ failure = "none"
    /\ stderr = <<>>
    /\ ctlExit = "idle"

BadParameter == "need either file to read from or readStdin option"

\* ioutil.ReadAll(os.Stdin) and ioutil.ReadFile(fileName)
ReadAllStdin ==
    IF stdin.ok THEN [err |-> "nil", data |-> stdin.data]
    ELSE [err |-> "cannot read config file from stdin", data |-> NoData]
ReadFile(fileName) ==
    IF fs[fileName].ok THEN [err |-> "nil", data |-> fs[fileName].data]
    ELSE [err |-> "can not read file", data |-> NoData]

\* A faulty variant of readFile: the check of the two arguments is lost, and
\* standard input wins when both are given.
readFileUnchecked(fileName, readStdin) ==
    IF readStdin THEN ReadAllStdin
    ELSE IF fileName = "" THEN [err |-> "can not read file", data |-> NoData]
    ELSE ReadFile(fileName)

\* A faulty variant of readFile: the file's content is returned without its last
\* byte.
readFileTruncated(fileName, readStdin) ==
    IF (readStdin /\ fileName # "") \/ (~readStdin /\ fileName = "")
    THEN [err |-> BadParameter, data |-> NoData]
    ELSE IF readStdin THEN ReadAllStdin
    ELSE LET r == ReadFile(fileName)
         IN [err |-> r.err,
             data |-> IF r.data = <<>> THEN r.data
                      ELSE SubSeq(r.data, 1, Len(r.data) - 1)]

\* readFile(fileName, readStdin), lines 170-189
readFile(fileName, readStdin) ==
    IF (readStdin /\ fileName # "") \/ (~readStdin /\ fileName = "")
    THEN [err |-> BadParameter, data |-> NoData]
    ELSE IF readStdin THEN ReadAllStdin
    ELSE ReadFile(fileName)

\* the last element of os.Args is "-"
readStdinArg == args.last = "-"

\* run, lines 39-101: the flags and commands are declared and app.Parse
\* selects a command or fails
RunParse ==
    /\ cpc = "Parse"
    /\ IF args.cmd \in Commands /\ args.wellFormed
       THEN /\ cmd' = args.cmd
            /\ cpc' = "newClient"
            /\ UNCHANGED <<runErr, failure>>
       ELSE /\ runErr' = "ParseError"
            /\ failure' = "Parse"
            /\ cpc' = "returned"
            /\ UNCHANGED cmd
    /\ UNCHANGED <<args, fs, stdin, calls, rf, sent, stderr, ctlExit>>
    /\ UNCHANGED rpcVars

\* what newClient, getCluster and a client operation may return
CallResults == {"nil", "ClientError"}

\* run, lines 103-106
RunNewClient ==
    /\ cpc = "newClient"
    /\ calls' = Append(calls, "newClient")
    /\ \E r \in CallResults :
         IF r = "nil"
         THEN /\ cpc' = "dispatch"
              /\ UNCHANGED <<runErr, failure>>
         ELSE /\ runErr' = r
              /\ failure' = "newClient"
              /\ cpc' = "returned"
    /\ UNCHANGED <<args, fs, stdin, cmd, rf, sent, stderr, ctlExit>>
    /\ UNCHANGED rpcVars

\* printConfig, lines 124-140: getCluster, cluster.Config, json.MarshalIndent
\* and the print to standard output
printConfig ==
    /\ cpc = "dispatch" /\ cmd = "cluster config"
    /\ \E g \in CallResults, o \in CallResults, m \in BOOLEAN :
         IF g # "nil"
         THEN /\ calls' = Append(calls, "getCluster")
              /\ runErr' = g
              /\ failure' = "getCluster"
         ELSE IF o # "nil"
         THEN /\ calls' = calls \o <<"getCluster", "Config">>
              /\ runErr' = o
              /\ failure' = "Config"
         ELSE /\ calls' = calls \o <<"getCluster", "Config">>
              /\ runErr' = IF m THEN "nil" ELSE "failed to marshal configuration"
              /\ failure' = IF m THEN failure ELSE "MarshalIndent"
    /\ cpc' = "returned"
    /\ UNCHANGED <<args, fs, stdin, cmd, rf, sent, stderr, ctlExit>>
    /\ UNCHANGED rpcVars

\* A faulty variant of applyConfig: the cluster is fetched before the payload is
\* resolved.
applyConfigClusterFirst(op) ==
    /\ cpc = "dispatch"
    /\ LET r == readFile(args.file, readStdinArg)
       IN /\ rf' = [called |-> TRUE, err |-> r.err, data |-> r.data]
          /\ \E g \in CallResults, o \in CallResults :
               IF g # "nil"
               THEN /\ calls' = Append(calls, "getCluster")
                    /\ runErr' = g
                    /\ failure' = "getCluster"
                    /\ UNCHANGED sent
               ELSE IF r.err # "nil"
               THEN /\ calls' = Append(calls, "getCluster")
                    /\ runErr' = r.err
                    /\ failure' = "readFile"
                    /\ UNCHANGED sent
               ELSE /\ calls' = calls \o <<"getCluster", op>>
                    /\ sent' = [called |-> TRUE, data |-> r.data]
                    /\ runErr' = o
                    /\ failure' = IF o = "nil" THEN failure ELSE op
    /\ cpc' = "returned"
    /\ UNCHANGED <<args, fs, stdin, cmd, stderr, ctlExit>>
    /\ UNCHANGED rpcVars

\* The body patchConfig (lines 142-154) and replaceConfig (lines 156-168)
\* share: readFile, then getCluster, then the operation op on the cluster
\* with the bytes readFile returned
applyConfig(op) ==
    /\ cpc = "dispatch"
    /\ LET r == readFile(args.file, readStdinArg)
       IN /\ rf' = [called |-> TRUE, err |-> r.err, data |-> r.data]
          /\ \E g \in CallResults, o \in CallResults :
               IF r.err # "nil"
               THEN /\ runErr' = r.err
                    /\ failure' = "readFile"
                    /\ UNCHANGED <<calls, sent>>
               ELSE IF g # "nil"
               THEN /\ calls' = Append(calls, "getCluster")
                    /\ runErr' = g
                    /\ failure' = "getCluster"
                    /\ UNCHANGED sent
               ELSE /\ calls' = calls \o <<"getCluster", op>>
                    /\ sent' = [called |-> TRUE, data |-> r.data]
                    /\ runErr' = o
                    /\ failure' = IF o = "nil" THEN failure ELSE op
    /\ cpc' = "returned"
    /\ UNCHANGED <<args, fs, stdin, cmd, stderr, ctlExit>>
    /\ UNCHANGED rpcVars

\* run line 111-112 and patchConfig, lines 142-154
patchConfig ==
    /\ cmd = "cluster patch"
    /\ applyConfig("PatchConfig")

\* A faulty variant of replaceConfig: it calls the patch operation.
replaceConfigAsPatch ==
    /\ cmd = "cluster replace"
    /\ applyConfig("PatchConfig")

\* run line 113-114 and replaceConfig, lines 156-168
replaceConfig ==
    /\ cmd = "cluster replace"
    /\ applyConfig("ReplaceConfig")

\* run line 115-116: status(ctl, name, masterOnly, json), one operation on
\* the client that may fail
status ==
    /\ cpc = "dispatch" /\ cmd = "cluster status"
    /\ calls' = Append(calls, "status")
    /\ \E o \in CallResults :
         /\ runErr' = o
         /\ failure' = IF o = "nil" THEN failure ELSE "status"
    /\ cpc' = "returned"
    /\ UNCHANGED <<args, fs, stdin, cmd, rf, sent, stderr, ctlExit>>
    /\ UNCHANGED rpcVars

\* run line 117-118 and list, lines 191-201
list ==
    /\ cpc = "dispatch" /\ cmd = "cluster list"
    /\ calls' = Append(calls, "Clusters")
    /\ \E o \in CallResults :
         /\ runErr' = o
         /\ failure' = IF o = "nil" THEN failure ELSE "Clusters"
    /\ cpc' = "returned"
    /\ UNCHANGED <<args, fs, stdin, cmd, rf, sent, stderr, ctlExit>>
    /\ UNCHANGED rpcVars

\* A faulty variant of MainExit: the error is logged but os.Exit(1) is missing.
MainExitNoExit1 ==
    /\ cpc = "returned"
    /\ stderr' = IF runErr # "nil" THEN Append(stderr, runErr) ELSE stderr
    /\ ctlExit' = "0"
    /\ cpc' = "exited"
    /\ UNCHANGED <<args, fs, stdin, cmd, calls, rf, sent, runErr, failure>>
    /\ UNCHANGED rpcVars

\* main, lines 203-209: an error of run is logged and the process exits with
\* status 1; otherwise main returns and the status is 0
MainExit ==
    /\ cpc = "returned"
    /\ IF runErr # "nil"
       THEN /\ stderr' = Append(stderr, runErr)
            /\ ctlExit' = "1"
       ELSE /\ ctlExit' = "0"
            /\ UNCHANGED stderr
    /\ cpc' = "exited"
    /\ UNCHANGED <<args, fs, stdin, cmd, calls, rf, sent, runErr, failure>>
    /\ UNCHANGED rpcVars

NextCtl ==
    \/ RunParse
    \/ RunNewClient
    \/ printConfig
    \/ patchConfig
    \/ replaceConfig
    \/ status
    \/ list
    \/ MainExit

(***************************************************************************)
(* Specifications                                                          *)
(***************************************************************************)
InitRpc == InitRpcVars /\ IdleCtlVars
InitCtl == InitCtlVars /\ IdleRpcVars

SpecRpc == InitRpc /\ [][NextRpc]_vars
SpecCtl == InitCtl /\ [][NextCtl]_vars

(***************************************************************************)
(* Properties of stolonrpc (checked under SpecRpc)                         *)
(***************************************************************************)
Last(q) == q[Len(q)]
FatalLogged == \E i \in 1..Len(logCalls) : logCalls[i][1] = "Fatal"
CapturedLogged ==
    \E i \in 1..Len(logCalls) :
        logCalls[i] \in {<<"Info", "Captured " \o s>> : s \in Signals}

\* C2: once signal.Notify has run, main is in the select or the process has
\* been ended by one of its two cases (the loop never returns normally); at
\* most one supervision outcome ever fires, the process has ended from the
\* loop exactly when one outcome has fired, and a ListenerFault ends it with
\* status 1, a TerminationSignal with status 0 (never both).
C2_SingleOutcome ==
    /\ notified => pc \in {"select", "exited"}
    /\ Len(outcomes) <= 1
    /\ (pc = "exited") <=> (Len(outcomes) = 1)
    /\ outcomes = <<"ListenerFault">> => exitCode = "1" /\ sigRecvs = 0
    /\ outcomes = <<"TerminationSignal">> => exitCode = "0" /\ errRecvs = 0

\* a fault and a signal were both ready, and exactly one outcome fired
C2_Witness ==
    /\ pc = "exited"
    /\ outcomes = <<"ListenerFault">>
    /\ signalChan # <<>>

\* C3: when reading the configuration fails or the configured severity is
\* not recognized, the RPC endpoint is never constructed and the listener
\* goroutine is never launched.
C3_StartupAborts ==
    (envErr \/ setupLogging(envLogLevel).err # "nil")
        => (~endpoint /\ lpc = "notstarted" /\ launches = 0)

\* C4 as stated: when a signal reached signalChan before any value reached
\* errChan, a process that has ended has ended with status 0, the signal
\* logged, and the fault neither received nor logged.
C4_SignalFirstExitsZero ==
    (firstReady = "signal" /\ pc = "exited")
        => (exitCode = "0" /\ CapturedLogged /\ errRecvs = 0 /\ ~FatalLogged)

\* C4 as amended: whenever the supervision loop has received the signal from
\* signalChan, the process has ended with status 0, the last thing logged is
\* the captured signal, and no fault was received from errChan or logged.
C4_SignalReceivedExitsZero ==
    sigRecvs > 0 =>
        /\ pc = "exited" /\ exitCode = "0"
        /\ logCalls # <<>> /\ Last(logCalls)[1] = "Info"
        /\ CapturedLogged
        /\ errRecvs = 0 /\ ~FatalLogged

\* the signal came first, was received, and the fault that came later is
\* still in errChan
C4_Witness ==
    /\ firstReady = "signal"
    /\ sigRecvs = 1
    /\ exitCode = "0"
    /\ errChan # <<>>

\* C5: once the supervision loop has received a value from errChan the
\* process has ended with status 1, the fault logged by log.Fatal as the
\* last log call, and signalChan was never received from; and the listener
\* goroutine is launched at most once.
C5_FaultIsFatal ==
    /\ errRecvs > 0 =>
          /\ pc = "exited" /\ exitCode = "1"
          /\ logCalls # <<>> /\ Last(logCalls) = <<"Fatal", lerr>>
          /\ sigRecvs = 0
    /\ launches <= 1

\* the fault was received and acted on while a signal was waiting
C5_Witness ==
    /\ errRecvs = 1
    /\ exitCode = "1"
    /\ signalChan # <<>>

\* C10: the listener goroutine sends at most once on errChan, errChan never
\* holds more than its capacity, and whenever the goroutine is at its send
\* the channel has room, so the send does not wait for the supervision loop.
C10_SendNeverBlocks ==
    /\ sends <= 1
    /\ Len(errChan) <= ErrChanCap
    /\ lpc = "send" => Len(errChan) < ErrChanCap

\* the fault was sent before main reached the select
C10_Witness ==
    /\ sends = 1
    /\ errChan # <<>>
    /\ pc = "Notify"

(***************************************************************************)
(* Properties of stolonctl (checked under SpecCtl)                         *)
(***************************************************************************)
\* exactly one of {--file given, last argument is "-"}
exactlyOne == (args.file # "") # readStdinArg

\* the source readFile selects can be read
sourceReadable == IF readStdinArg THEN stdin.ok ELSE fs[args.file].ok

\* the content of the source readFile selects
sourceData == IF readStdinArg THEN stdin.data ELSE fs[args.file].data

returned == cpc \in {"returned", "exited"}

ConfigCalls == {"getCluster", "PatchConfig", "ReplaceConfig"}
CommandOps == {"Config", "PatchConfig", "ReplaceConfig", "status", "Clusters"}
ops == SelectSeq(calls, LAMBDA x : x \in CommandOps)
Called(S) == \E i \in 1..Len(calls) : calls[i] \in S

OpFor(k) ==
    CASE k = "cluster config" -> "Config"
      [] k = "cluster patch" -> "PatchConfig"
      [] k = "cluster replace" -> "ReplaceConfig"
      [] k = "cluster status" -> "status"
      [] k = "cluster list" -> "Clusters"

\* C1 as stated: readFile succeeds if and only if exactly one of {file name
\* non-empty, readStdin} holds, and gives the parameter error otherwise.
C1_SucceedsIffExactlyOne ==
    rf.called =>
        /\ (rf.err = "nil") <=> exactlyOne
        /\ ~exactlyOne => rf.err = BadParameter

\* C1 as amended: readFile gives the parameter error if and only if both or
\* neither of {file name non-empty, readStdin} hold; with exactly one it
\* succeeds if and only if the selected source can be read, and gives the
\* wrapped read error otherwise.
C1_ParameterErrorIffNotExactlyOne ==
    rf.called =>
        /\ (rf.err = BadParameter) <=> ~exactlyOne
        /\ (rf.err = "nil") <=> (exactlyOne /\ sourceReadable)
        /\ (exactlyOne /\ ~sourceReadable) =>
              rf.err = (IF readStdinArg
                        THEN "cannot read config file from stdin"
                        ELSE "can not read file")

\* both --file and the stdin marker are given, and readFile refused
C1_Witness ==
    /\ rf.called
    /\ args.file # "" /\ readStdinArg
    /\ rf.err = BadParameter

\* C6 as stated: a parsed patch or replace with neither or both of {--file,
\* "-"} ends with the validation error, with no getCluster, PatchConfig or
\* ReplaceConfig, whatever client construction does.
C6_ValidationErrorAlways ==
    (returned /\ cmd \in {"cluster patch", "cluster replace"} /\ ~exactlyOne)
        => (runErr = BadParameter /\ ~Called(ConfigCalls))

\* C6 as amended: such an invocation ends with the validation error unless
\* newClient, which run calls before it dispatches, fails, and then with
\* newClient's error; in both cases getCluster, PatchConfig and ReplaceConfig
\* are never called and no payload is handed to the client.
C6_ValidationErrorAfterClient ==
    (returned /\ cmd \in {"cluster patch", "cluster replace"} /\ ~exactlyOne)
        => /\ failure \in {"newClient", "readFile"}
           /\ failure = "readFile" => runErr = BadParameter
           /\ failure = "newClient" => runErr = "ClientError" /\ ~rf.called
           /\ ~Called(ConfigCalls)
           /\ ~sent.called

\* replace with neither --file nor "-": the validation error, and only
\* newClient was called
C6_Witness ==
    /\ cpc = "exited"
    /\ cmd = "cluster replace"
    /\ args.file = "" /\ ~readStdinArg
    /\ runErr = BadParameter
    /\ calls = <<"newClient">>

\* C7: the bytes handed to PatchConfig/ReplaceConfig are the bytes of the
\* selected source (the file named by --file, or standard input); and
\* whenever a file and standard input hold the same bytes, readFile gives
\* the same payload for either.
C7_PayloadIsSource ==
    /\ sent.called => (exactlyOne /\ sent.data = sourceData)
    /\ \A f \in FileNames :
          (fs[f].ok /\ stdin.ok /\ fs[f].data = stdin.data)
              => readFile(f, FALSE) = readFile("", TRUE)

\* a file of MaxLen bytes was handed to PatchConfig
C7_Witness ==
    /\ sent.called
    /\ ~readStdinArg
    /\ Len(sent.data) = MaxLen
    /\ Called({"PatchConfig"})

\* C8 as stated: after a successful parse, run has called exactly one
\* command operation, the one of the parsed command, after newClient.
C8_ExactlyOneOperation ==
    (returned /\ cmd # "")
        => (calls # <<>> /\ calls[1] = "newClient"
            /\ ops = <<OpFor(cmd)>>)

\* C8 as amended: newClient is called after the parse and before any other
\* client call; at most one command operation is ever called, and only the
\* one of the parsed command; it is exactly one unless newClient, the
\* payload resolution or getCluster failed first, and then it is none.
C8_AtMostOneMatchingOperation ==
    /\ calls # <<>> => (cmd # "" /\ calls[1] = "newClient")
    /\ Len(ops) <= 1
    /\ \A i \in 1..Len(ops) : ops[i] = OpFor(cmd)
    /\ (returned /\ cmd # "") =>
          IF failure \in {"newClient", "readFile", "getCluster"}
          THEN ops = <<>>
          ELSE ops = <<OpFor(cmd)>>

\* replace ran to the end and ReplaceConfig is the one operation called
C8_Witness ==
    /\ cpc = "exited"
    /\ cmd = "cluster replace"
    /\ ops = <<"ReplaceConfig">>

\* C9: the process exits with status 0 exactly when no step failed, and
\* with status 1 and the error of run written to the error stream when one
\* did.
C9_ExitCode ==
    cpc = "exited" =>
        /\ ctlExit \in {"0", "1"}
        /\ (ctlExit = "0") <=> (failure = "none")
        /\ failure = "none" => stderr = <<>>
        /\ failure # "none" => (runErr # "nil" /\ stderr = <<runErr>>)

\* the file could not be read and the process exited with status 1
C9_Witness ==
    /\ ctlExit = "1"
    /\ failure = "readFile"
    /\ stderr = <<"can not read file">>

====
